---- MODULE Spec2Model ----
(***************************************************************************)
(* A model of the Lisp interpreter of src/parsing.c (lines 1-589): the     *)
(* lval heap, the environment, the builtins, the evaluator and the REPL    *)
(* loop.  Every lval is a heap cell at an address; lval_del removes the    *)
(* cell, so that a pointer to a released lval is a dangling address.       *)
(***************************************************************************)
EXTENDS Integers, Sequences, FiniteSets, TLC

VARIABLES st, pre, input, out, pc

vars == <<st, pre, input, out, pc>>

RECURSIVE lval_del(_, _)
RECURSIVE lval_del_cells(_, _, _)
RECURSIVE lval_copy(_, _)
RECURSIVE lval_copy_cells(_, _, _)
RECURSIVE lval_read(_, _)
RECURSIVE lval_read_children(_, _, _)
RECURSIVE lval_eval(_, _)
RECURSIVE lval_eval_sexpr(_, _)
RECURSIVE EvalCells(_, _, _)
RECURSIVE builtin_eval(_, _)
RECURSIVE Call(_, _, _)
RECURSIVE Decode(_, _)

(***************************************************************************)
(* Bounds of the model.                                                    *)
(***************************************************************************)
MaxLeak == 1
MaxLen == 2
MaxArgs == 3
MaxKids == 3
MaxDepth == 4

(***************************************************************************)
(* struct lval.  A cell carries every field of the struct; the fields a    *)
(* constructor does not set keep the value of Blank and are never read.    *)
(***************************************************************************)
Blank == [type |-> "UNINIT", num |-> 0, err |-> "", sym |-> "", fun |-> "", cell |-> <<>>]

ltype_name(t) ==
  CASE t = "LVAL_FUN" -> "Function"
    [] t = "LVAL_NUM" -> "Number"
    [] t = "LVAL_ERR" -> "Error"
    [] t = "LVAL_SYM" -> "Symbol"
    [] t = "LVAL_SEXPR" -> "S-Expression"
    [] t = "LVAL_QEXPR" -> "Q-Expression"
    [] OTHER -> "Unknown"

(***************************************************************************)
(* The allocator.  s.heap maps the live addresses to their cells; s.freed  *)
(* holds the addresses released since the last prompt, which malloc does   *)
(* not hand out again before the next prompt, so that an address names one *)
(* allocation for as long as a pointer to it can exist.                    *)
(***************************************************************************)
malloc(s) ==
  LET used == DOMAIN s.heap \cup s.freed
      a == CHOOSE x \in 1..(Cardinality(used) + 1) :
             x \notin used /\ \A y \in 1..(x - 1) : y \in used
  IN [st |-> [s EXCEPT !.heap = (a :> Blank) @@ s.heap], v |-> a]

free(s, v) ==
  [s EXCEPT !.heap = [x \in DOMAIN s.heap \ {v} |-> s.heap[x]],
            !.freed = s.freed \cup {v}]

Live(s, v) == v \in DOMAIN s.heap

(***************************************************************************)
(* The C stack.  Every call of lval_eval takes a frame and gives it back   *)
(* when it returns; s.depth counts the frames of lval_eval in use and the  *)
(* stack holds MaxDepth of them.  The call that finds the stack full ends  *)
(* the process: s.depth is left above MaxDepth and no statement runs any   *)
(* more.                                                                   *)
(***************************************************************************)
Exhausted(s) == s.depth > MaxDepth

Enter(s) == [s EXCEPT !.depth = @ + 1]

Leave(r) == IF r.st.depth > MaxDepth THEN r ELSE [st |-> [r.st EXCEPT !.depth = @ - 1], v |-> r.v]

Overflow(s, v) == [st |-> [s EXCEPT !.depth = MaxDepth + 1], v |-> v]

(* The first undefined operation of the evaluation is recorded in s.fault. *)
Fault(s, kind) == IF s.fault = "none" /\ ~Exhausted(s) THEN [s EXCEPT !.fault = kind] ELSE s

(* C runs its statements in order: the state that one statement leaves is  *)
(* complete before the next statement runs.                                *)
Then(s, x) == IF s.fault = "none" THEN x ELSE x

(* Reading v->... : a released lval reads as the garbage s.ub. *)
Use(s, v) == IF Live(s, v) THEN s ELSE Fault(s, "read of a released lval")

Cell(s, v) == IF Live(s, v) THEN s.heap[v] ELSE s.ub

Type(s, v) == Cell(s, v).type

Count(s, v) == Len(Cell(s, v).cell)

(* Writing v->... : a write to a released lval is lost. *)
Store(s, v, c) ==
  IF Live(s, v) THEN [s EXCEPT !.heap[v] = c]
  ELSE Fault(s, "write to a released lval")

(***************************************************************************)
(* Constructors.                                                           *)
(***************************************************************************)
(* v = malloc(sizeof(lval)) followed by the stores of the fields c. *)
New(m, c) == [st |-> Store(m.st, m.v, c), v |-> m.v]

lval_num(s, x) == New(malloc(s), [Blank EXCEPT !.type = "LVAL_NUM", !.num = x])

lval_err(s, msg) == New(malloc(s), [Blank EXCEPT !.type = "LVAL_ERR", !.err = msg])

lval_sym(s, name) == New(malloc(s), [Blank EXCEPT !.type = "LVAL_SYM", !.sym = name])

lval_fun(s, func) == New(malloc(s), [Blank EXCEPT !.type = "LVAL_FUN", !.fun = func])

lval_sexpr(s) == New(malloc(s), [Blank EXCEPT !.type = "LVAL_SEXPR"])

lval_qexpr(s) == New(malloc(s), [Blank EXCEPT !.type = "LVAL_QEXPR"])

(***************************************************************************)
(* lval_del: the children first, then the lval itself.  Releasing an lval  *)
(* that is already released is a double free.                              *)
(***************************************************************************)
lval_del_cells(s, cells, i) ==
  IF i > Len(cells) THEN s
  ELSE Then(s, lval_del_cells(lval_del(s, cells[i]), cells, i + 1))

lval_del(s, v) ==
  IF ~Live(s, v) THEN Fault(s, "release of a released lval")
  ELSE LET c == s.heap[v]
           s1 == IF c.type \in {"LVAL_QEXPR", "LVAL_SEXPR"}
                 THEN lval_del_cells(s, c.cell, 1) ELSE s
       IN free(s1, v)

(***************************************************************************)
(* lval_copy: a fresh lval for v and for every descendant of v.            *)
(***************************************************************************)
(* The loop of lval_copy over the children: r.v are the copies so far. *)
lval_copy_cell(r, c) == [st |-> c.st, v |-> Append(r.v, c.v)]

lval_copy_cells(r, cells, i) ==
  IF i > Len(cells) THEN r
  ELSE Then(r.st, lval_copy_cells(lval_copy_cell(r, lval_copy(r.st, cells[i])), cells, i + 1))

(* x->cell = the copies k.v; x is the fresh lval m. *)
lval_copy_store(m, c, k) ==
  Then(k.st, [st |-> Store(k.st, m.v, [Blank EXCEPT !.type = c.type, !.cell = k.v]), v |-> m.v])

(* The switch of lval_copy: m is the fresh lval x, c what *v reads as. *)
lval_copy_switch(m, c) ==
  CASE c.type = "LVAL_NUM" -> New(m, [Blank EXCEPT !.type = c.type, !.num = c.num])
    [] c.type = "LVAL_FUN" -> New(m, [Blank EXCEPT !.type = c.type, !.fun = c.fun])
    [] c.type = "LVAL_ERR" -> New(m, [Blank EXCEPT !.type = c.type, !.err = c.err])
    [] c.type = "LVAL_SYM" -> New(m, [Blank EXCEPT !.type = c.type, !.sym = c.sym])
    [] c.type \in {"LVAL_QEXPR", "LVAL_SEXPR"} ->
         lval_copy_store(m, c, lval_copy_cells([st |-> m.st, v |-> <<>>], c.cell, 1))
    [] OTHER -> New(m, [Blank EXCEPT !.type = c.type])

lval_copy(s, v) == lval_copy_switch(malloc(Use(s, v)), Cell(s, v))

(***************************************************************************)
(* lval_add, lval_pop, lval_take.  The index i counts from 0 as in the C.  *)
(***************************************************************************)
lval_add(s, parent, child) ==
  [st |-> Store(s, parent, [Cell(s, parent) EXCEPT !.cell = Append(@, child)]), v |-> parent]

lval_pop(s, v, i) ==
  [st |-> Store(s, v, [Cell(s, v) EXCEPT !.cell = SubSeq(@, 1, i) \o SubSeq(@, i + 2, Len(@))]),
   v |-> Cell(s, v).cell[i + 1]]

(* lval_del(a); return r: how many of the functions end. *)
DelReturn(r, a) == Then(r.st, [st |-> lval_del(r.st, a), v |-> r.v])

(* lval_del(lval_pop(v, i)), p being what lval_pop returned. *)
DelPopped(p) == Then(p.st, lval_del(p.st, p.v))

(* lval_add(x, c), c being what the call in the argument returned. *)
AddTo(c, x) == Then(c.st, lval_add(c.st, x, c.v))

lval_take(s, v, i) == DelReturn(lval_pop(s, v, i), v)

(***************************************************************************)
(* The LASSERT macros: on a failed condition build the Error, release the  *)
(* argument list and return the Error.  vsnprintf formats the message.     *)
(***************************************************************************)
LASSERT(s, args, msg) == DelReturn(lval_err(s, msg), args)

(* A LASSERT_NUM that lets more arguments than num pass. *)
LASSERT_NUM_cond_at_least(s, args, num) == Count(s, args) >= num

(* The condition of LASSERT_NUM: args->count == num. *)
LASSERT_NUM_cond(s, args, num) == Count(s, args) = num

LASSERT_NUM_msg(func, num, count) ==
  "Function '" \o func \o "' passed an incorrect number of arguments. "
    \o "Expected " \o ToString(num) \o ", Got " \o ToString(count) \o "."

LASSERT_TYPE_msg(func, position, expect, got) ==
  "Function '" \o func \o "' passed an incorrect type for argument "
    \o ToString(position) \o ". Expected " \o ltype_name(expect)
    \o ", Got " \o ltype_name(got) \o "."

LASSERT_NOT_EMPTY_msg(func, position) ==
  "Function '" \o func \o "' passed {} for argument " \o ToString(position) \o ". "

(* args->cell[position], position counted from 0 *)
Arg(s, a, position) == Cell(s, a).cell[position + 1]

(* The index of the first argument whose type is not expect, or -1. *)
FirstNotOfType(s, a, expect) ==
  LET bad == {i \in 0..(Count(s, a) - 1) : Type(s, Arg(s, a, i)) # expect}
  IN IF bad = {} THEN -1 ELSE CHOOSE i \in bad : \A j \in bad : i <= j

UseArgs(s, a, n) ==
  IF \E i \in 0..(n - 1) : ~Live(s, Arg(s, a, i))
  THEN Fault(s, "read of a released lval") ELSE s

UseAll(s, a) == UseArgs(s, a, Count(s, a))

(***************************************************************************)
(* The list builtins.                                                      *)
(***************************************************************************)
(* A head_loop that releases the child in front instead of the second. *)
RECURSIVE head_loop_front(_, _)
head_loop_front(s, v) ==
  IF Count(s, v) > 1 THEN head_loop_front(DelPopped(lval_pop(s, v, 0)), v) ELSE s

RECURSIVE head_loop(_, _)
head_loop(s, v) ==
  IF Count(s, v) > 1 THEN head_loop(DelPopped(lval_pop(s, v, 1)), v) ELSE s

(* The loop on the taken list v and return v (lines 249-250). *)
head_of(v) == [st |-> head_loop(v.st, v.v), v |-> v.v]

builtin_head(s0, a) ==
  IF ~LASSERT_NUM_cond(s0, a, 1) THEN LASSERT(s0, a, LASSERT_NUM_msg("head", 1, Count(s0, a)))
  ELSE LET s == UseArgs(s0, a, 1) IN
  IF Type(s, Arg(s, a, 0)) # "LVAL_QEXPR"
  THEN LASSERT(s, a, LASSERT_TYPE_msg("head", 0, "LVAL_QEXPR", Type(s, Arg(s, a, 0))))
  ELSE IF Count(s, Arg(s, a, 0)) = 0 THEN LASSERT(s, a, LASSERT_NOT_EMPTY_msg("head", 0))
  ELSE head_of(lval_take(s, a, 0))

(* lval_del(lval_pop(v, 0)) on the taken list v and return v (lines 259-260). *)
tail_of(v) == [st |-> DelPopped(lval_pop(v.st, v.v, 0)), v |-> v.v]

builtin_tail(s0, a) ==
  IF ~LASSERT_NUM_cond(s0, a, 1) THEN LASSERT(s0, a, LASSERT_NUM_msg("tail", 1, Count(s0, a)))
  ELSE LET s == UseArgs(s0, a, 1) IN
  IF Type(s, Arg(s, a, 0)) # "LVAL_QEXPR"
  THEN LASSERT(s, a, LASSERT_TYPE_msg("tail", 0, "LVAL_QEXPR", Type(s, Arg(s, a, 0))))
  ELSE IF Count(s, Arg(s, a, 0)) = 0 THEN LASSERT(s, a, LASSERT_NOT_EMPTY_msg("tail", 0))
  ELSE tail_of(lval_take(s, a, 0))

builtin_list(s, a) ==
  [st |-> Store(s, a, [Cell(s, a) EXCEPT !.type = "LVAL_QEXPR"]), v |-> a]

(* The retagging of line 275 alone, without the evaluation of line 276. *)
eval_of_retag_only(x) == [st |-> Store(x.st, x.v, [Cell(x.st, x.v) EXCEPT !.type = "LVAL_SEXPR"]), v |-> x.v]

(* x->type = LVAL_SEXPR; return lval_eval(e, x) (lines 275-276). *)
eval_of(x) == lval_eval(Store(x.st, x.v, [Cell(x.st, x.v) EXCEPT !.type = "LVAL_SEXPR"]), x.v)

builtin_eval(s0, a) ==
  IF ~LASSERT_NUM_cond(s0, a, 1) THEN LASSERT(s0, a, LASSERT_NUM_msg("eval", 1, Count(s0, a)))
  ELSE LET s == UseArgs(s0, a, 1) IN
  IF Type(s, Arg(s, a, 0)) # "LVAL_QEXPR"
  THEN LASSERT(s, a, LASSERT_TYPE_msg("eval", 0, "LVAL_QEXPR", Type(s, Arg(s, a, 0))))
  ELSE eval_of(lval_take(s, a, 0))

(* An lval_join that moves the children of y from its end. *)
RECURSIVE lval_join_from_end(_, _, _)
lval_join_from_end(s, x, y) ==
  IF Count(s, y) > 0
  THEN lval_join_from_end(AddTo(lval_pop(s, y, Count(s, y) - 1), x).st, x, y)
  ELSE [st |-> lval_del(s, y), v |-> x]

RECURSIVE lval_join(_, _, _)
lval_join(s, x, y) ==
  IF Count(s, y) > 0
  THEN lval_join(AddTo(lval_pop(s, y, 0), x).st, x, y)
  ELSE [st |-> lval_del(s, y), v |-> x]

(* x = lval_join(x, lval_pop(a, 0)) (line 299), p being the popped lval. *)
join_popped(x, p) == lval_join(p.st, x, p.v)

RECURSIVE join_loop(_, _)
join_loop(r, a) ==
  IF Count(r.st, a) > 0 THEN join_loop(join_popped(r.v, lval_pop(r.st, a, 0)), a)
  ELSE [st |-> lval_del(r.st, a), v |-> r.v]

builtin_join(s0, a) ==
  LET s == UseArgs(s0, a, Count(s0, a))
      bad == FirstNotOfType(s, a, "LVAL_QEXPR")
  IN IF bad >= 0
     THEN LASSERT(s, a, LASSERT_TYPE_msg("join", bad, "LVAL_QEXPR", Type(s, Arg(s, a, bad))))
     ELSE join_loop(lval_pop(s, a, 0), a)

(* q->cell[0] = x in front of the others, lval_del(a), return q (lines 312-318). *)
cons_onto(x, q, a) ==
  DelReturn([st |-> Store(q.st, q.v, [Cell(q.st, q.v) EXCEPT !.cell = <<x.v>> \o @]),
             v |-> q.v], a)

cons_of(x, a) == cons_onto(x, lval_pop(x.st, a, 0), a)

builtin_cons(s0, a) ==
  IF ~LASSERT_NUM_cond(s0, a, 2) THEN LASSERT(s0, a, LASSERT_NUM_msg("cons", 2, Count(s0, a)))
  ELSE LET s == UseArgs(s0, a, 2) IN
  IF Type(s, Arg(s, a, 0)) \notin {"LVAL_NUM", "LVAL_FUN"}
  THEN LASSERT(s, a, "Function 'cons' passed incorrect type for argument 0. Expected Number or Function.")
  ELSE IF Type(s, Arg(s, a, 1)) # "LVAL_QEXPR"
  THEN LASSERT(s, a, LASSERT_TYPE_msg("cons", 1, "LVAL_QEXPR", Type(s, Arg(s, a, 1))))
  ELSE cons_of(lval_pop(s, a, 0), a)

(* The lval that builtin_init returns (line 328). *)
init_result(a, v) == a

(* lval_del(lval_pop(v, v->count - 1)) on the taken list v (line 327). *)
init_of(a, v) ==
  [st |-> DelPopped(lval_pop(v.st, v.v, Count(v.st, v.v) - 1)), v |-> init_result(a, v.v)]

builtin_init(s0, a) ==
  IF ~LASSERT_NUM_cond(s0, a, 1) THEN LASSERT(s0, a, LASSERT_NUM_msg("init", 1, Count(s0, a)))
  ELSE LET s == UseArgs(s0, a, 1) IN
  IF Type(s, Arg(s, a, 0)) # "LVAL_QEXPR"
  THEN LASSERT(s, a, LASSERT_TYPE_msg("init", 0, "LVAL_QEXPR", Type(s, Arg(s, a, 0))))
  ELSE IF Count(s, Arg(s, a, 0)) = 0 THEN LASSERT(s, a, LASSERT_NOT_EMPTY_msg("init", 0))
  ELSE init_of(a, lval_take(s, a, 0))

builtin_len(s0, a) ==
  IF ~LASSERT_NUM_cond(s0, a, 1) THEN LASSERT(s0, a, LASSERT_NUM_msg("len", 1, Count(s0, a)))
  ELSE LET s == UseArgs(s0, a, 1) IN
  IF Type(s, Arg(s, a, 0)) # "LVAL_QEXPR"
  THEN LASSERT(s, a, LASSERT_TYPE_msg("len", 0, "LVAL_QEXPR", Type(s, Arg(s, a, 0))))
  ELSE DelReturn(lval_num(s, Count(s, Arg(s, a, 0))), a)

(***************************************************************************)
(* Arithmetic on long.  C division truncates toward zero and the remainder *)
(* takes the sign of the dividend.  The operands of the model stay far     *)
(* from LONG_MAX, so that no operation overflows.                          *)
(***************************************************************************)
Abs(n) == IF n < 0 THEN -n ELSE n

(* A division that rounds toward minus infinity. *)
c_div_floor(x, y) == IF y < 0 THEN (-x) \div (-y) ELSE x \div y

c_div(x, y) == IF (x < 0) = (y < 0) THEN Abs(x) \div Abs(y) ELSE -(Abs(x) \div Abs(y))

c_rem(x, y) == x - y * c_div(x, y)

Arith(op, x, y) ==
  CASE op = "+" -> x + y
    [] op = "-" -> x - y
    [] op = "*" -> x * y
    [] op = "/" -> c_div(x, y)
    [] op = "%" -> c_rem(x, y)

SetNum(s, x, n) == Store(s, x, [Cell(s, x) EXCEPT !.num = n])

(* One turn of the while loop of builtin_op, y = p.v popped (lines 375-394). *)
RECURSIVE op_loop(_, _, _, _)
op_popped(p, a, x, op) ==
  IF op \in {"/", "%"} /\ Cell(p.st, p.v).num = 0
  THEN lval_err(lval_del(lval_del(p.st, x), p.v), "Division by zero")
  ELSE op_loop(lval_del(SetNum(p.st, x, Arith(op, Cell(p.st, x).num, Cell(p.st, p.v).num)), p.v),
               a, x, op)

(* The while loop of builtin_op (lines 374-395). *)
op_loop(s, a, x, op) ==
  IF Count(s, a) > 0 THEN op_popped(lval_pop(s, a, 0), a, x, op) ELSE [st |-> s, v |-> x]

(* The unary minus, the loop, lval_del(a) and return x (lines 370-397), x = p.v. *)
op_of(p, a, op) ==
  DelReturn(op_loop(IF op = "-" /\ Count(p.st, a) = 0
                    THEN SetNum(p.st, p.v, -Cell(p.st, p.v).num) ELSE p.st, a, p.v, op), a)

builtin_op(s0, a, op) ==
  LET s == UseArgs(s0, a, Count(s0, a))
      bad == FirstNotOfType(s, a, "LVAL_NUM")
  IN IF bad >= 0
     THEN LASSERT(s, a, LASSERT_TYPE_msg(op, bad, "LVAL_NUM", Type(s, Arg(s, a, bad))))
     ELSE op_of(lval_pop(s, a, 0), a, op)

builtin_add(s, a) == builtin_op(s, a, "+")

builtin_sub(s, a) == builtin_op(s, a, "-")

builtin_mul(s, a) == builtin_op(s, a, "*")

builtin_div(s, a) == builtin_op(s, a, "/")

builtin_rem(s, a) == builtin_op(s, a, "%")

(***************************************************************************)
(* struct lenv: s.syms and s.vals, e->count = Len(s.syms).                 *)
(***************************************************************************)
lenv_new(s) == [s EXCEPT !.syms = <<>>, !.vals = <<>>]

(* The index (from 1) of the first entry named name, or 0. *)
lenv_find(s, name) ==
  LET hit == {i \in 1..Len(s.syms) : s.syms[i] = name}
  IN IF hit = {} THEN 0 ELSE CHOOSE i \in hit : \A j \in hit : i <= j

(* An lenv_get that returns the stored lval itself, not a copy of it. *)
lenv_get_stored(s, k) ==
  LET name == Cell(s, k).sym
      i == lenv_find(s, name)
  IN IF i > 0 THEN [st |-> s, v |-> s.vals[i]]
     ELSE lval_err(s, "unbound symbol '" \o name \o "'")

lenv_get(s, k) ==
  LET name == Cell(s, k).sym
      i == lenv_find(s, name)
  IN IF i > 0 THEN lval_copy(s, s.vals[i])
     ELSE lval_err(s, "unbound symbol '" \o name \o "'")

(* e->vals[i] = lval_copy(v) (line 484). *)
lenv_put_replace(c, i) == [c.st EXCEPT !.vals[i] = c.v]

(* The realloc of both arrays and the new last entry (lines 489-493). *)
lenv_put_append(c, name) == [c.st EXCEPT !.vals = Append(@, c.v), !.syms = Append(@, name)]

(* An lenv_put without the search loop: every put makes a new entry. *)
lenv_put_always_append(s, k, v) == lenv_put_append(lval_copy(s, v), Cell(s, k).sym)

lenv_put(s, k, v) ==
  LET name == Cell(s, k).sym
      i == lenv_find(s, name)
  IN IF i > 0
     THEN lenv_put_replace(lval_copy(lval_del(s, s.vals[i]), v), i)
     ELSE lenv_put_append(lval_copy(s, v), name)

(* The put loop of builtin_def (lines 507-509). *)
RECURSIVE def_loop(_, _, _, _)
def_loop(s, syms, a, i) ==
  IF i < Count(s, syms)
  THEN def_loop(lenv_put(s, Arg(s, syms, i), Arg(s, a, i + 1)), syms, a, i + 1)
  ELSE s

builtin_def(s0, a) ==
  LET s == UseArgs(s0, a, 1) IN
  IF Type(s, Arg(s, a, 0)) # "LVAL_QEXPR"
  THEN LASSERT(s, a, LASSERT_TYPE_msg("def", 0, "LVAL_QEXPR", Type(s, Arg(s, a, 0))))
  ELSE LET syms == Arg(s, a, 0)
       IN IF FirstNotOfType(s, syms, "LVAL_SYM") >= 0
          THEN LASSERT(s, a, "Function 'def' cannot define non-symbol")
          ELSE IF Count(s, syms) # Count(s, a) - 1
          THEN LASSERT(s, a, "Function 'def' cannot define incorrect number of values to symbols")
          ELSE lval_sexpr(lval_del(def_loop(s, syms, a, 0), a))

(* lenv_put(e, k, v); lval_del(k); lval_del(v) (lines 518-519). *)
lenv_add_builtin_put(k, v) == lval_del(lval_del(lenv_put(v.st, k.v, v.v), k.v), v.v)

lenv_add_builtin_fun(k, func) == lenv_add_builtin_put(k, lval_fun(k.st, func))

lenv_add_builtin(s, name, func) == lenv_add_builtin_fun(lval_sym(s, name), func)

(* The builtin table of lenv_add_builtins, in registration order. *)
Builtins ==
  << <<"list", "builtin_list">>, <<"head", "builtin_head">>, <<"tail", "builtin_tail">>,
     <<"eval", "builtin_eval">>, <<"join", "builtin_join">>, <<"cons", "builtin_cons">>,
     <<"len", "builtin_len">>, <<"init", "builtin_init">>,
     <<"%", "builtin_rem">>, <<"+", "builtin_add">>, <<"-", "builtin_sub">>,
     <<"*", "builtin_mul">>, <<"/", "builtin_div">>,
     <<"def", "builtin_def">> >>

RECURSIVE add_builtins_from(_, _)
add_builtins_from(s, i) ==
  IF i > Len(Builtins) THEN s
  ELSE Then(s, add_builtins_from(lenv_add_builtin(s, Builtins[i][1], Builtins[i][2]), i + 1))

lenv_add_builtins(s) == add_builtins_from(s, 1)

(* first->fun(e, v): the call through the function pointer. *)
Call(f, s, a) ==
  CASE f = "builtin_list" -> builtin_list(s, a)
    [] f = "builtin_head" -> builtin_head(s, a)
    [] f = "builtin_tail" -> builtin_tail(s, a)
    [] f = "builtin_eval" -> builtin_eval(s, a)
    [] f = "builtin_join" -> builtin_join(s, a)
    [] f = "builtin_cons" -> builtin_cons(s, a)
    [] f = "builtin_len" -> builtin_len(s, a)
    [] f = "builtin_init" -> builtin_init(s, a)
    [] f = "builtin_rem" -> builtin_rem(s, a)
    [] f = "builtin_add" -> builtin_add(s, a)
    [] f = "builtin_sub" -> builtin_sub(s, a)
    [] f = "builtin_mul" -> builtin_mul(s, a)
    [] f = "builtin_div" -> builtin_div(s, a)
    [] f = "builtin_def" -> builtin_def(s, a)

(* v->cell[i] = r.v, what lval_eval returned (line 403). *)
EvalCell(r, v, i) == Then(r.st, Store(r.st, v, [Cell(r.st, v) EXCEPT !.cell[i + 1] = r.v]))

(***************************************************************************)
(* The evaluator.                                                          *)
(***************************************************************************)
(* A first loop that stops behind the first child that evaluates to an Error. *)
RECURSIVE EvalCells_until_error(_, _, _)
EvalCells_until_error(s, v, i) ==
  IF i < Count(s, v) /\ (i = 0 \/ Type(s, Arg(s, v, i - 1)) # "LVAL_ERR")
  THEN EvalCells_until_error(EvalCell(lval_eval(s, Arg(s, v, i)), v, i), v, i + 1)
  ELSE s

(* The first loop of lval_eval_sexpr (lines 402-404), from child i on. *)
EvalCells(s, v, i) ==
  Then(s, IF i < Count(s, v)
          THEN EvalCells(EvalCell(lval_eval(s, Arg(s, v, i)), v, i), v, i + 1) ELSE s)

(* A second loop that finds the last child of type Error, or -1. *)
FirstErr_from_end(s, v) ==
  LET errs == {i \in 0..(Count(s, v) - 1) : Type(s, Arg(s, v, i)) = "LVAL_ERR"}
  IN IF errs = {} THEN -1 ELSE CHOOSE i \in errs : \A j \in errs : i >= j

(* The second loop (lines 406-408): the first child of type Error, or -1. *)
FirstErr(s, v) ==
  LET errs == {i \in 0..(Count(s, v) - 1) : Type(s, Arg(s, v, i)) = "LVAL_ERR"}
  IN IF errs = {} THEN -1 ELSE CHOOSE i \in errs : \A j \in errs : i <= j

(* The call of the first child f = p.v on the others (lines 413-422). *)
lval_eval_sexpr_call(p, v) ==
  IF Type(p.st, p.v) # "LVAL_FUN"
  THEN lval_err(lval_del(lval_del(p.st, p.v), v), "S-expression does not begin with symbol!")
  ELSE DelReturn(Call(Cell(p.st, p.v).fun, p.st, v), p.v)

(* lval_eval_sexpr after its first loop (lines 406-413). *)
lval_eval_sexpr_rest(s, v) ==
  LET i == FirstErr(s, v)
  IN IF i >= 0 THEN lval_take(s, v, i)
     ELSE IF Count(s, v) = 0 THEN [st |-> s, v |-> v]
     ELSE IF Count(s, v) = 1 THEN lval_take(s, v, 0)
     ELSE lval_eval_sexpr_call(lval_pop(s, v, 0), v)

(* lval_eval_sexpr once its first loop has left the state s. *)
lval_eval_sexpr_scan(s, v) == Then(s, lval_eval_sexpr_rest(UseAll(s, v), v))

lval_eval_sexpr(s0, v) == lval_eval_sexpr_scan(EvalCells(s0, v, 0), v)

(* The body of lval_eval (lines 428-434), run in its frame. *)
lval_eval_frame(s0, v) ==
  LET s == Use(s0, v)
  IN IF Type(s, v) = "LVAL_SYM" THEN DelReturn(lenv_get(s, v), v)
     ELSE IF Type(s, v) = "LVAL_SEXPR" THEN lval_eval_sexpr(s, v)
     ELSE [st |-> s, v |-> v]

lval_eval(s0, v) ==
  IF s0.depth >= MaxDepth THEN Overflow(s0, v)
  ELSE Leave(lval_eval_frame(Enter(s0), v))

(***************************************************************************)
(* Reading the parse tree (mpc_ast_t): a node has a tag, contents and      *)
(* children.  For a number node, long is what strtol makes of the digits   *)
(* and erange tells that they do not fit a long (errno = ERANGE).          *)
(***************************************************************************)
lval_read_num(s, t) ==
  IF ~t.erange THEN lval_num(s, t.long) ELSE lval_err(s, "invalid number")

lval_read_children(x, children, i) ==
  IF i > Len(children) THEN x
  ELSE Then(x.st, lval_read_children(AddTo(lval_read(x.st, children[i]), x.v), children, i + 1))

lval_read(s, t) ==
  IF t.tag = "number" THEN lval_read_num(s, t)
  ELSE IF t.tag = "symbol" THEN lval_sym(s, t.contents)
  ELSE lval_read_children(IF t.tag = "qexpr" THEN lval_qexpr(s) ELSE lval_sexpr(s),
                          t.children, 1)

(***************************************************************************)
(* lval_print walks the result; Decode is the tree it renders.             *)
(***************************************************************************)
Decode(s, v) ==
  LET c == Cell(s, v)
  IN CASE c.type = "LVAL_NUM" -> [type |-> c.type, num |-> c.num]
       [] c.type = "LVAL_ERR" -> [type |-> c.type, err |-> c.err]
       [] c.type = "LVAL_SYM" -> [type |-> c.type, sym |-> c.sym]
       [] c.type = "LVAL_FUN" -> [type |-> c.type, fun |-> c.fun]
       [] c.type \in {"LVAL_SEXPR", "LVAL_QEXPR"} ->
            [type |-> c.type, cell |-> [i \in 1..Len(c.cell) |-> Decode(s, c.cell[i])]]
       [] OTHER -> [type |-> c.type]

(***************************************************************************)
(* What a released lval may read as, and whether the C library aborts the  *)
(* process on the first undefined operation.                               *)
(***************************************************************************)
Garbage ==
  {[Blank EXCEPT !.type = t] : t \in {"UNINIT", "LVAL_NUM", "LVAL_ERR", "LVAL_SEXPR", "LVAL_QEXPR"}}

UBOutcomes ==
  {[abort |-> TRUE, cell |-> Blank]} \cup {[abort |-> FALSE, cell |-> c] : c \in Garbage}

NoOutput == [type |-> "none"]

(* The lvals reachable from the Environment, and the leaked ones. *)
RECURSIVE ReachFrom(_, _)
ReachFrom(s, v) ==
  IF ~Live(s, v) THEN {v}
  ELSE {v} \cup UNION {ReachFrom(s, s.heap[v].cell[i]) : i \in 1..Len(s.heap[v].cell)}

Reach(s) == UNION {ReachFrom(s, s.vals[i]) : i \in 1..Len(s.vals)}

Leaked(s) == DOMAIN s.heap \ Reach(s)

(***************************************************************************)
(* The program never compares or prints a pointer, so that a heap matters  *)
(* only up to the renaming of its addresses.  Between two prompts the heap *)
(* is kept in one representative form: the lvals of the Environment in     *)
(* the order of its entries, children after their parent, and then the     *)
(* leaked lvals.                                                           *)
(***************************************************************************)
RECURSIVE Preorder(_, _)
RECURSIVE PreorderAll(_, _, _)
Preorder(s, v) ==
  IF ~Live(s, v) THEN <<>> ELSE <<v>> \o PreorderAll(s, s.heap[v].cell, 1)

PreorderAll(s, cells, i) ==
  IF i > Len(cells) THEN <<>> ELSE Preorder(s, cells[i]) \o PreorderAll(s, cells, i + 1)

RECURSIVE Ascending(_)
Ascending(S) ==
  IF S = {} THEN <<>>
  ELSE LET m == CHOOSE x \in S : \A y \in S : x <= y IN <<m>> \o Ascending(S \ {m})

Compact(s) ==
  LET order == PreorderAll(s, s.vals, 1) \o Ascending(Leaked(s))
      new(a) == IF \E i \in 1..Len(order) : order[i] = a
                THEN CHOOSE i \in 1..Len(order) : order[i] = a ELSE 0
  IN [s EXCEPT !.heap = [i \in 1..Len(order) |->
                           [s.heap[order[i]] EXCEPT !.cell = [j \in 1..Len(@) |-> new(@[j])]]],
               !.vals = [i \in 1..Len(s.vals) |-> new(s.vals[i])],
               !.freed = {}, !.ub = Blank]

(***************************************************************************)
(* main: the startup and the two halves of one turn of the loop.           *)
(***************************************************************************)
Startup ==
  LET s == lenv_add_builtins(lenv_new([heap |-> <<>>, freed |-> {}, syms |-> <<>>,
                                       vals |-> <<>>, fault |-> "none", ub |-> Blank,
                                       depth |-> 0]))
  IN Compact(s)

Init ==
  /\ st = Startup
  /\ pre = st
  /\ input = [tag |-> ">", contents |-> "", long |-> 0, erange |-> FALSE, children |-> <<>>]
  /\ out = NoOutput
  /\ pc = "readline"

(* readline and mpc_parse (lines 570-575): the next line, parsed. *)
ReadLine(lines) ==
  /\ pc = "readline"
  /\ Cardinality(Leaked(st)) <= MaxLeak
  /\ \E t \in lines : input' = t
  /\ pc' = "eval"
  /\ UNCHANGED <<st, pre, out>>

(* lval_read, lval_eval, lval_println and lval_del (lines 576-578). *)
(* lval_del(x) (line 578): d is the heap it leaves, p the heap at the print. *)
main_del(x, p, d) == Then(d, [st |-> Compact(d), v |-> Decode(p, x.v)])

(* lval_println(x) (line 577). *)
main_println(x, p) == main_del(x, p, lval_del(p, x.v))

(* x = lval_eval(e, lval_read(r.output)) (line 576). *)
main_eval(x) == Then(x.st, main_println(x, Use(x.st, x.v)))

main_read(r) == Then(r.st, main_eval(lval_eval(r.st, r.v)))

RunLine(s0, t) == main_read(lval_read(s0, t))

(* The turn after an undefined operation, r being the evaluation in which  *)
(* a released lval reads as g.cell.                                        *)
Undefined(g, r) ==
  /\ st' = r.st
  /\ pc' = IF g.abort \/ Exhausted(r.st) THEN "crashed" ELSE "free"
  /\ out' = IF g.abort \/ Exhausted(r.st) THEN NoOutput ELSE r.v

(* One evaluation.  When it performs an undefined operation, the outcome   *)
(* is any of UBOutcomes; otherwise no released lval is read and the        *)
(* outcome does not depend on what a released lval reads as.               *)
Turn(r) ==
  IF r.st.fault = "none"
  THEN /\ st' = r.st
       /\ pc' = IF Exhausted(r.st) THEN "crashed" ELSE "free"
       /\ out' = IF Exhausted(r.st) THEN NoOutput ELSE r.v
  ELSE \E g \in UBOutcomes : Undefined(g, RunLine([st EXCEPT !.ub = g.cell], input))

EvalPrint ==
  /\ pc = "eval"
  /\ Turn(RunLine(st, input))
  /\ UNCHANGED <<pre, input>>

(* free(input) (line 584): the end of the turn; the line and what was      *)
(* printed are gone.                                                       *)
Loop ==
  /\ pc = "free"
  /\ pc' = "readline"
  /\ input' = [tag |-> ">", contents |-> "", long |-> 0, erange |-> FALSE, children |-> <<>>]
  /\ out' = NoOutput
  /\ st' = [st EXCEPT !.fault = "none"]
  /\ pre' = st'

(***************************************************************************)
(* Parse trees.                                                            *)
(***************************************************************************)
N(n) == [tag |-> "number", contents |-> "", long |-> n, erange |-> FALSE, children |-> <<>>]

TooBig == [tag |-> "number", contents |-> "", long |-> 0, erange |-> TRUE, children |-> <<>>]

Sy(name) == [tag |-> "symbol", contents |-> name, long |-> 0, erange |-> FALSE, children |-> <<>>]

SX(children) == [tag |-> "sexpr", contents |-> "", long |-> 0, erange |-> FALSE, children |-> children]

QX(children) == [tag |-> "qexpr", contents |-> "", long |-> 0, erange |-> FALSE, children |-> children]

Line(children) == [tag |-> ">", contents |-> "", long |-> 0, erange |-> FALSE, children |-> children]

(***************************************************************************)
(* The lines typed at the prompt.  A line is the root node of the parse    *)
(* (tag ">"), whose children are the expressions of the line.              *)
(***************************************************************************)
SeqsUpTo(S, n) == UNION {[1..k -> S] : k \in 0..n}

App(f, args) == Line(<<SX(<<Sy(f)>> \o args)>>)

(* Lines that bind, look up and transform the values of x and y. *)
DefVals == {N(5), N(10), QX(<<N(1), QX(<<N(2)>>)>>)}

DefLines ==
  {App("def", <<QX(<<Sy(n)>>), v>>) : n \in {"x", "y"}, v \in DefVals}
    \cup {App("def", <<QX(<<Sy("x"), Sy(n)>>), v, w>>) : n \in {"x", "y"}, v \in DefVals, w \in DefVals}
    \cup {App("def", <<QX(<<Sy("head")>>), N(5)>>)}

LookupLines ==
  {Line(<<Sy(n)>>) : n \in {"x", "y", "head"}}
    \cup {App(f, <<Sy("x")>>) : f \in {"head", "tail", "init", "list", "eval", "len", "join", "-"}}
    \cup {App("join", <<Sy("x"), Sy("x")>>), App("cons", <<N(0), Sy("x")>>),
          App("+", <<Sy("x"), N(1)>>), App("eval", <<SX(<<Sy("tail"), Sy("x")>>)>>)}

ReplLines == DefLines \cup LookupLines \cup {Line(<<TooBig>>)}

(* Lines whose children evaluate to Errors at every position. *)
ErrKids ==
  {Sy("foo"), N(1), Sy("list"), SX(<<Sy("def"), QX(<<Sy("x")>>), N(5)>>),
   SX(<<Sy("/"), N(1), N(0)>>), SX(<<Sy("init"), QX(<<N(1)>>)>>)}

ErrLines == {Line(<<SX(kids)>>) : kids \in SeqsUpTo(ErrKids, MaxKids) \ {<<>>}}

(* Calls of the builtins with a checked arity, with 0..MaxArgs arguments. *)
ArityFuncs == {"head", "tail", "eval", "len", "init", "cons"}

ArityArgs == {N(1), QX(<<N(1), N(2)>>), Sy("foo")}

ArityLines == {App(f, args) : f \in ArityFuncs, args \in SeqsUpTo(ArityArgs, MaxArgs)}

(* Calls of the arithmetic operators. *)
Ops == {"+", "-", "*", "/", "%"}

OpArgs == {N(-7), N(0), N(2), QX(<<N(1)>>), Sy("list")}

OpLines ==
  {App(op, args) : op \in Ops, args \in SeqsUpTo(OpArgs, MaxArgs) \ {<<>>}}
    \cup {App("+", <<N(1), N(2), N(3)>>), App("*", <<N(2), SX(<<Sy("+"), N(1), N(2)>>)>>)}

(* Calls of the list builtins on literal Q-expressions. *)
QElems == {N(1), QX(<<Sy("x")>>)}

QLits == {QX(c) : c \in SeqsUpTo(QElems, MaxLen)}

JoinArgs == {QX(<<>>), QX(<<N(1)>>), QX(<<N(2), QX(<<Sy("x")>>)>>), N(3), Sy("list")}

ListLines ==
  {App(f, <<q>>) : f \in {"head", "tail", "len", "init"}, q \in QLits}
    \cup {App("join", args) : args \in SeqsUpTo(JoinArgs, MaxArgs) \ {<<>>}}
    \cup {App("join", <<a, b, c>>) : a \in QLits, b \in QLits, c \in QLits}
    \cup {App("join", <<SX(<<Sy("join"), a, b>>), c>>) : a \in QLits, b \in QLits, c \in QLits}
    \cup {App("join", <<a, SX(<<Sy("join"), b, c>>)>>) : a \in QLits, b \in QLits, c \in QLits}
    \cup {App("head", <<QX(<<N(1), N(2), N(3)>>)>>), App("tail", <<QX(<<N(1), N(2), N(3)>>)>>),
          App("len", <<QX(<<N(1), N(2), N(3)>>)>>), App("join", <<QX(<<N(1), N(2)>>), QX(<<N(3), N(4)>>)>>)}

(* Lines that bind x and y to Q-expressions of eval and symbols, and lines  *)
(* that evaluate them.                                                     *)
EvalVals ==
  {QX(<<Sy("eval"), Sy("x")>>), QX(<<Sy("eval"), Sy("y")>>), QX(<<>>)}

EvalLines ==
  {App("def", <<QX(<<Sy(n)>>), v>>) : n \in {"x", "y"}, v \in EvalVals}
    \cup {App("eval", <<Sy(n)>>) : n \in {"x", "y"}}
    \cup {Line(<<Sy("x")>>), App("init", <<QX(<<N(1)>>)>>),
          App("list", <<SX(<<Sy("def"), QX(<<Sy("y")>>), QX(<<Sy("eval"), Sy("y")>>)>>),
                        SX(<<Sy("eval"), Sy("y")>>)>>)}

(***************************************************************************)
(* The specifications: the same loop, fed with each family of lines.       *)
(***************************************************************************)
Next == ReadLine(ReplLines) \/ EvalPrint \/ Loop

Spec == Init /\ [][Next]_vars

NextErr == ReadLine(ErrLines) \/ EvalPrint \/ Loop

SpecErr == Init /\ [][NextErr]_vars

NextArity == ReadLine(ArityLines) \/ EvalPrint \/ Loop

SpecArity == Init /\ [][NextArity]_vars

NextOp == ReadLine(OpLines) \/ EvalPrint \/ Loop

SpecOp == Init /\ [][NextOp]_vars

NextList == ReadLine(ListLines) \/ EvalPrint \/ Loop

SpecList == Init /\ [][NextList]_vars

NextEval == ReadLine(EvalLines) \/ EvalPrint \/ Loop

(* The loop of main is sequential: once the result is printed, the line is *)
(* released and the loop comes back to its prompt.  Nothing makes the user *)
(* type another line.                                                      *)
SpecEval == Init /\ [][NextEval]_vars /\ WF_vars(Loop)

(***************************************************************************)
(* The values that the properties speak of.                                *)
(***************************************************************************)
VNum(n) == [type |-> "LVAL_NUM", num |-> n]

VErr(m) == [type |-> "LVAL_ERR", err |-> m]

VSym(x) == [type |-> "LVAL_SYM", sym |-> x]

VFun(f) == [type |-> "LVAL_FUN", fun |-> f]

VQ(c) == [type |-> "LVAL_QEXPR", cell |-> c]

VS(c) == [type |-> "LVAL_SEXPR", cell |-> c]

(* The value that a parse tree denotes when it is quoted. *)
RECURSIVE Quoted(_)
Quoted(t) ==
  CASE t.tag = "number" -> VNum(t.long)
    [] t.tag = "symbol" -> VSym(t.contents)
    [] t.tag = "qexpr" -> VQ([i \in 1..Len(t.children) |-> Quoted(t.children[i])])
    [] OTHER -> VS([i \in 1..Len(t.children) |-> Quoted(t.children[i])])

(* The line is the single call (f ...). *)
IsCall(t, f) ==
  /\ Len(t.children) = 1
  /\ t.children[1].tag = "sexpr"
  /\ Len(t.children[1].children) >= 1
  /\ t.children[1].children[1] = Sy(f)

Args(t) == Tail(t.children[1].children)

(* In the Environment s the name resolves to the builtin fun. *)
Resolves(s, name, fun) ==
  \E i \in 1..Len(s.syms) : s.syms[i] = name /\ Decode(s, s.vals[i]) = VFun(fun)

(* The turn on the line is over: the result is printed or the process died. *)
Evaluated == pc \in {"free", "crashed"}

(* The evaluation ran to its end without an undefined operation. *)
Sound == pc = "free" /\ st.fault = "none"

(* The line applies the list builtin f to one literal Q-expression. *)
OnQLit(f) ==
  /\ Evaluated
  /\ IsCall(input, f)
  /\ Len(Args(input)) = 1
  /\ Args(input)[1].tag = "qexpr"
  /\ Resolves(pre, f, "builtin_" \o f)

(* The Environment as the user sees it: the names and the values bound. *)
EnvOf(s) == [i \in 1..Len(s.syms) |-> <<s.syms[i], Decode(s, s.vals[i])>>]

Names(s) == {s.syms[i] : i \in 1..Len(s.syms)}

Bound(s, n) == Decode(s, s.vals[CHOOSE i \in 1..Len(s.syms) : s.syms[i] = n])

(* The line is one S-expression with children. *)
IsSexpr(t) ==
  /\ Len(t.children) = 1
  /\ t.children[1].tag = "sexpr"
  /\ Len(t.children[1].children) >= 1

Kids(t) == t.children[1].children

(* The children evaluated one after the other from s on, each as a line of *)
(* its own: what each evaluates to and the state it leaves.                *)
RECURSIVE EachChild(_, _, _)
EachChild(s, kids, i) ==
  IF i > Len(kids) THEN <<>>
  ELSE LET r == RunLine(s, Line(<<kids[i]>>)) IN <<r>> \o EachChild(r.st, kids, i + 1)

ErrAt(rs) == {i \in 1..Len(rs) : rs[i].v.type = "LVAL_ERR"}

Leftmost(S) == CHOOSE i \in S : \A j \in S : i <= j

(***************************************************************************)
(* C1 as claimed: when child i of an S-expression evaluates to an Error,   *)
(* no child to its right is evaluated, and the Environment after the       *)
(* evaluation is the one that evaluating the children 0..i alone leaves.   *)
(***************************************************************************)
C1_ShortCircuit ==
  (pc = "free" /\ IsSexpr(input)) =>
    LET rs == EachChild(pre, Kids(input), 1)
    IN ErrAt(rs) # {} => EnvOf(st) = EnvOf(rs[Leftmost(ErrAt(rs))].st)

(***************************************************************************)
(* C1 as amended: every child of an S-expression is evaluated, in order,   *)
(* before any result is inspected; when a child evaluates to an Error the  *)
(* Environment after the evaluation is the one that evaluating all the     *)
(* children in order leaves, the siblings to the right of the Error        *)
(* included.                                                               *)
(***************************************************************************)
C1_AllChildren ==
  (pc = "free" /\ IsSexpr(input)) =>
    LET rs == EachChild(pre, Kids(input), 1)
    IN ErrAt(rs) # {} => EnvOf(st) = EnvOf(rs[Len(rs)].st)

C1_Witness ==
  /\ pc = "free"
  /\ IsSexpr(input)
  /\ LET rs == EachChild(pre, Kids(input), 1)
     IN /\ ErrAt(rs) # {}
        /\ Leftmost(ErrAt(rs)) < Len(rs)
        /\ EnvOf(st) # EnvOf(rs[Leftmost(ErrAt(rs))].st)
        /\ "x" \in Names(st) \ Names(pre)

(***************************************************************************)
(* C2: an S-expression with a child that evaluates to an Error, at any     *)
(* position and whatever the other children are, evaluates to an Error,    *)
(* the leftmost of its children that are Errors; no builtin is applied and *)
(* the result is never a value that is not an Error.                       *)
(***************************************************************************)
C2_LeftmostError ==
  (pc = "free" /\ IsSexpr(input)) =>
    LET rs == EachChild(pre, Kids(input), 1)
        i == Leftmost(ErrAt(rs))
    IN ErrAt(rs) # {} =>
         /\ out.type = "LVAL_ERR"
         /\ st.fault = "none" => out = rs[i].v
         /\ (st.fault = "none" /\ Kids(input)[i] = Sy("foo")) => out = VErr("unbound symbol 'foo'")
         /\ (st.fault = "none" /\ Kids(input)[i].tag = "sexpr"
               /\ Kids(input)[i].children[1] = Sy("/")) => out = VErr("Division by zero")

C2_Witness ==
  /\ pc = "free"
  /\ IsSexpr(input)
  /\ Len(Kids(input)) = 3
  /\ Kids(input)[1] = Sy("list")
  /\ ErrAt(EachChild(pre, Kids(input), 1)) = {2, 3}
  /\ Kids(input)[2] = Sy("foo")
  /\ out = VErr("unbound symbol 'foo'")

(***************************************************************************)
(* C3: after any sequence of evaluations the Environment holds every name  *)
(* at most once; a def binds each name of its list to the value given for  *)
(* its last occurrence, replaces the binding of a name that is bound       *)
(* (a builtin included) without a new entry and appends the names that are *)
(* new; evaluating a bound Symbol yields the value bound to it.            *)
(***************************************************************************)
IsDef(t) ==
  /\ IsCall(t, "def")
  /\ Len(Args(t)) >= 1
  /\ Args(t)[1].tag = "qexpr"
  /\ Len(Args(t)[1].children) = Len(Args(t)) - 1
  /\ \A i \in 1..Len(Args(t)[1].children) : Args(t)[1].children[i].tag = "symbol"
  /\ \A i \in 2..Len(Args(t)) : Args(t)[i].tag \in {"number", "qexpr"}

DefNames(t) == {Args(t)[1].children[i].contents : i \in 1..Len(Args(t)[1].children)}

(* The value that the def line t gives for the last occurrence of n. *)
DefValue(t, n) ==
  LET at == {i \in 1..Len(Args(t)[1].children) : Args(t)[1].children[i].contents = n}
  IN Quoted(Args(t)[1 + (CHOOSE i \in at : \A j \in at : i >= j)])

C3_Env ==
  /\ \A i, j \in 1..Len(st.syms) : st.syms[i] = st.syms[j] => i = j
  /\ (Evaluated /\ IsDef(input) /\ Resolves(pre, "def", "builtin_def")) =>
       /\ Sound
       /\ out = VS(<<>>)
       /\ Names(st) = Names(pre) \cup DefNames(input)
       /\ \A n \in Names(st) :
            Bound(st, n) = IF n \in DefNames(input) THEN DefValue(input, n) ELSE Bound(pre, n)
       /\ Len(st.syms) = Len(pre.syms) + Cardinality(DefNames(input) \ Names(pre))
       /\ \A i \in 1..Len(pre.syms) : st.syms[i] = pre.syms[i]
  /\ \A n \in Names(pre) :
       (Evaluated /\ input = Line(<<Sy(n)>>)) => Sound /\ out = Bound(pre, n)

C3_Witness ==
  /\ Evaluated
  /\ input = App("def", <<QX(<<Sy("x")>>), N(10)>>)
  /\ "x" \in Names(pre)
  /\ Bound(pre, "x") = VNum(5)
  /\ Bound(st, "x") = VNum(10)
  /\ Len(st.syms) = Len(pre.syms)

(***************************************************************************)
(* C4: looking a name up changes neither the Environment nor the stored    *)
(* value and returns a copy of its own: whatever a line that is not a def  *)
(* does with what it looked up (head, tail, init, join, cons, list, eval,  *)
(* arithmetic), every binding is afterwards what it was; a bound name      *)
(* evaluates to the value bound, an absent name to the Error               *)
(* "unbound symbol '<name>'", and no entry is added.                       *)
(***************************************************************************)
C4_Lookup ==
  Evaluated =>
    /\ ~IsCall(input, "def") => EnvOf(st) = EnvOf(pre)
    /\ \A n \in {"x", "y", "head"} :
         input = Line(<<Sy(n)>>) =>
           /\ Sound
           /\ out = IF n \in Names(pre) THEN Bound(pre, n)
                    ELSE VErr("unbound symbol '" \o n \o "'")

C4_Witness ==
  /\ Evaluated
  /\ input = App("tail", <<Sy("x")>>)
  /\ "x" \in Names(pre)
  /\ Bound(pre, "x") = VQ(<<VNum(1), VQ(<<VNum(2)>>)>>)
  /\ out = VQ(<<VQ(<<VNum(2)>>)>>)
  /\ EnvOf(st) = EnvOf(pre)

(***************************************************************************)
(* C5: along every path of the evaluator and of the builtins no lval is    *)
(* released twice, no released lval is read, modified or returned, and     *)
(* every lval is released or handed on: at the end of a turn nothing but   *)
(* the Environment is left on the heap.                                    *)
(***************************************************************************)
C5_Ownership ==
  /\ st.fault = "none"
  /\ pc = "free" => Leaked(st) = {}

(***************************************************************************)
(* C6: for a Q-expression q of n >= 1 children, (init q) returns a live    *)
(* Q-expression of the first n-1 children of q in order; for the empty     *)
(* Q-expression it returns an Error.                                       *)
(***************************************************************************)
C6_Init ==
  OnQLit("init") =>
    LET c == Quoted(Args(input)[1]).cell
    IN /\ Sound
       /\ IF Len(c) = 0 THEN out.type = "LVAL_ERR"
          ELSE out = VQ(SubSeq(c, 1, Len(c) - 1))

(***************************************************************************)
(* C7 as claimed: head, tail, eval, len or init followed by a number of    *)
(* arguments other than 1 (none included), or cons followed by a number    *)
(* other than 2, where no argument evaluates to an Error, gives the arity  *)
(* Error that names the function, the expected and the actual count.       *)
(***************************************************************************)
Expected(f) == IF f = "cons" THEN 2 ELSE 1

ArityError(f, n) ==
  VErr("Function '" \o f \o "' passed an incorrect number of arguments. Expected "
         \o ToString(Expected(f)) \o ", Got " \o ToString(n) \o ".")

(* The line calls the builtin f, still bound to its name, with a wrong count. *)
WrongArity(f) ==
  /\ Evaluated
  /\ IsCall(input, f)
  /\ Resolves(pre, f, "builtin_" \o f)
  /\ Len(Args(input)) # Expected(f)

C7_Arity ==
  \A f \in ArityFuncs :
    (WrongArity(f) /\ ErrAt(EachChild(pre, Kids(input), 1)) = {}) =>
      out = ArityError(f, Len(Args(input)))

(***************************************************************************)
(* C7 as amended: followed by n >= 1 arguments, n other than the expected  *)
(* count, none of which evaluates to an Error, each of these builtins      *)
(* gives the arity Error that names the function, the expected count and   *)
(* n; when an argument evaluates to an Error the result is the leftmost    *)
(* such Error; followed by no argument the S-expression has one child and  *)
(* evaluates to that child, the Function itself.                           *)
(***************************************************************************)
C7_ArityOfArguments ==
  \A f \in ArityFuncs :
    WrongArity(f) =>
      LET rs == EachChild(pre, Kids(input), 1)
      IN /\ Sound
         /\ out = IF Len(Args(input)) = 0 THEN VFun("builtin_" \o f)
                  ELSE IF ErrAt(rs) # {} THEN rs[Leftmost(ErrAt(rs))].v
                  ELSE ArityError(f, Len(Args(input)))

C7_Witness ==
  /\ WrongArity("cons")
  /\ Len(Args(input)) = 3
  /\ out = VErr("Function 'cons' passed an incorrect number of arguments. Expected 2, Got 3.")

(***************************************************************************)
(* C8: an arithmetic operator on the Numbers n1..nk, k >= 1, gives the     *)
(* left fold ((n1 op n2) op n3) ... op nk, division and remainder          *)
(* truncating toward zero; for k = 1 it gives n1, and -n1 for "-"; "/" and *)
(* "%" give the Error "Division by zero" exactly when some ni, i >= 2, is  *)
(* zero; an argument that is not a Number makes the call an Error;         *)
(* (+ 1 2 3) is 6, and so is the product of 2 and (+ 1 2).                 *)
(***************************************************************************)
Magnitude(n) == IF n < 0 THEN -n ELSE n

(* The quotient q of a by b with a = q * b + r, |r| < |b|, r of the sign of a. *)
Quotient(a, b) ==
  CHOOSE q \in -Magnitude(a)..Magnitude(a) :
    /\ Magnitude(a - q * b) < Magnitude(b)
    /\ a - q * b = 0 \/ (a - q * b > 0) = (a > 0)

Step(op, x, y) ==
  CASE op = "+" -> x + y
    [] op = "-" -> x - y
    [] op = "*" -> x * y
    [] op = "/" -> Quotient(x, y)
    [] op = "%" -> x - y * Quotient(x, y)

RECURSIVE FoldLeft(_, _, _, _)
FoldLeft(op, acc, ns, i) ==
  IF i > Len(ns) THEN VNum(acc)
  ELSE IF op \in {"/", "%"} /\ ns[i] = 0 THEN VErr("Division by zero")
  ELSE FoldLeft(op, Step(op, acc, ns[i]), ns, i + 1)

OnNumbers(t) == \A i \in 1..Len(Args(t)) : Args(t)[i].tag = "number"

C8_Arith ==
  /\ \A op \in Ops :
       (Evaluated /\ IsCall(input, op) /\ Len(Args(input)) >= 1) =>
         LET ns == [i \in 1..Len(Args(input)) |-> Args(input)[i].long]
         IN /\ Sound
            /\ (OnNumbers(input) /\ Len(ns) = 1) => out = VNum(IF op = "-" THEN -ns[1] ELSE ns[1])
            /\ (OnNumbers(input) /\ Len(ns) > 1) => out = FoldLeft(op, ns[1], ns, 2)
            /\ (OnNumbers(input) /\ op \in {"/", "%"}) =>
                 (out = VErr("Division by zero") <=> \E i \in 2..Len(ns) : ns[i] = 0)
            /\ (\E i \in 1..Len(ns) : Args(input)[i].tag \in {"qexpr", "symbol"})
                 => out.type = "LVAL_ERR"
  /\ (Evaluated /\ input = App("+", <<N(1), N(2), N(3)>>)) => out = VNum(6)
  /\ (Evaluated /\ input = App("*", <<N(2), SX(<<Sy("+"), N(1), N(2)>>)>>)) => out = VNum(6)

C8_Witness ==
  /\ Evaluated
  /\ input = App("/", <<N(-7), N(2), N(2)>>)
  /\ out = VNum(-1)

(***************************************************************************)
(* C9: for a Q-expression q of n children, (head q) and (tail q) are       *)
(* Errors when n = 0 and the interpreter keeps running; when n >= 1,       *)
(* (head q) is the Q-expression of the first child and (tail q) the        *)
(* Q-expression of the others in order; (len q) is the Number n.           *)
(***************************************************************************)
C9_HeadTailLen ==
  \A f \in {"head", "tail", "len"} :
    OnQLit(f) =>
      LET c == Quoted(Args(input)[1]).cell
          n == Len(c)
      IN /\ Sound
         /\ f = "head" => IF n = 0 THEN out.type = "LVAL_ERR" ELSE out = VQ(<<c[1]>>)
         /\ f = "tail" => IF n = 0 THEN out.type = "LVAL_ERR" ELSE out = VQ(SubSeq(c, 2, n))
         /\ f = "len" => out = VNum(n)

C9_Witness ==
  /\ OnQLit("head")
  /\ Len(Args(input)[1].children) >= 2
  /\ out = VQ(<<Quoted(Args(input)[1].children[1])>>)

(***************************************************************************)
(* C10: join of Q-expressions q1..qk is the Q-expression of the children   *)
(* of q1, then of q2, ..., then of qk, in order; (join (join a b) c),      *)
(* (join a (join b c)) and (join a b c) are equal; an argument that is not *)
(* a Q-expression makes the result an Error.                               *)
(***************************************************************************)
IsJoin(t) == t.tag = "sexpr" /\ Len(t.children) >= 2 /\ t.children[1] = Sy("join")

(* A tree of joins over literal Q-expressions, and its children in order. *)
RECURSIVE JoinTree(_)
JoinTree(t) ==
  \/ t.tag = "qexpr"
  \/ IsJoin(t) /\ \A i \in 2..Len(t.children) : JoinTree(t.children[i])

RECURSIVE Flat(_, _)
Flat(ts, i) ==
  IF i > Len(ts) THEN <<>>
  ELSE (IF ts[i].tag = "qexpr" THEN Quoted(ts[i]).cell ELSE Flat(ts[i].children, 2))
         \o Flat(ts, i + 1)

OnJoin ==
  /\ Evaluated
  /\ IsCall(input, "join")
  /\ Len(Args(input)) >= 1
  /\ Resolves(pre, "join", "builtin_join")

(* The other two groupings of a join of three. *)
Regrouped(t) ==
  LET a == Args(t)
  IN IF Len(a) = 2 /\ IsJoin(a[1]) /\ Len(a[1].children) = 3
     THEN {App("join", <<a[1].children[2], a[1].children[3], a[2]>>),
           App("join", <<a[1].children[2], SX(<<Sy("join"), a[1].children[3], a[2]>>)>>)}
     ELSE {}

C10_Join ==
  OnJoin =>
    /\ Sound
    /\ JoinTree(input.children[1]) => out = VQ(Flat(Args(input), 1))
    /\ JoinTree(input.children[1]) => \A t \in Regrouped(input) : out = RunLine(pre, t).v
    /\ (\E i \in 1..Len(Args(input)) : Args(input)[i].tag \in {"number", "symbol"})
         => out.type = "LVAL_ERR"

C10_Witness ==
  /\ OnJoin
  /\ Regrouped(input) # {}
  /\ \A i \in 2..3 : Len(Args(input)[1].children[i].children) >= 1
  /\ Len(Args(input)[2].children) >= 1
  /\ out.type = "LVAL_QEXPR" /\ Len(out.cell) >= 3

(***************************************************************************)
(* C11 as claimed: every evaluation, in every Environment that earlier     *)
(* evaluations leave (defs of Q-expressions of eval and symbols included), *)
(* returns, and the loop reaches its print and its next prompt.  The runs  *)
(* that end in the release of a released lval by init are let be here.     *)
(***************************************************************************)
(* The process was ended by the C library at an undefined operation. *)
Aborted == pc = "crashed" /\ st.fault # "none"

(* The process was ended by the exhaustion of the stack. *)
Overflowed == pc = "crashed" /\ st.fault = "none" /\ Exhausted(st)

C11_Termination == Evaluated => (pc = "free" \/ Aborted)

(* The Symbols of a parse tree and of a value. *)
RECURSIVE TreeSyms(_)
TreeSyms(t) ==
  IF t.tag = "symbol" THEN {t.contents}
  ELSE UNION {TreeSyms(t.children[i]) : i \in 1..Len(t.children)}

RECURSIVE ValSyms(_)
ValSyms(v) ==
  IF v.type = "LVAL_SYM" THEN {v.sym}
  ELSE IF v.type \in {"LVAL_SEXPR", "LVAL_QEXPR"}
  THEN UNION {ValSyms(v.cell[i]) : i \in 1..Len(v.cell)}
  ELSE {}

(* The names that the names S lead to through the values bound in s. *)
RECURSIVE LeadsTo(_, _)
LeadsTo(s, S) ==
  LET T == S \cup UNION {ValSyms(Bound(s, n)) : n \in S \cap Names(s)}
  IN IF T = S THEN S ELSE LeadsTo(s, T)

(* A name that the line t leads to is bound to a value that leads back to  *)
(* the name.                                                               *)
Circular(s, t) ==
  \E n \in LeadsTo(s, TreeSyms(t)) \cap Names(s) : n \in LeadsTo(s, ValSyms(Bound(s, n)))

(* A name that the line t leads to is bound to the builtin def. *)
LeadsToDef(s, t) ==
  \E n \in LeadsTo(s, TreeSyms(t)) \cap Names(s) : Bound(s, n) = VFun("builtin_def")

WellFounded(s, t) == ~Circular(s, t) /\ (IsDef(t) \/ ~LeadsToDef(s, t))

(* The value bound to n is {eval m}, and so on from m, for k names. *)
RECURSIVE EvalChain(_, _, _)
EvalChain(s, n, k) ==
  k = 0 \/ /\ n \in Names(s)
           /\ Bound(s, n).type = "LVAL_QEXPR"
           /\ Len(Bound(s, n).cell) = 2
           /\ Bound(s, n).cell[1] = VSym("eval")
           /\ Bound(s, n).cell[2].type = "LVAL_SYM"
           /\ EvalChain(s, Bound(s, n).cell[2].sym, k - 1)

(* The line is (eval n), where n is bound to {eval m}, m to {eval ...} and *)
(* so on without end.                                                      *)
SelfEval(s, t) ==
  /\ IsCall(t, "eval")
  /\ Len(Args(t)) = 1
  /\ Args(t)[1].tag = "symbol"
  /\ Resolves(s, "eval", "builtin_eval")
  /\ EvalChain(s, Args(t)[1].contents, Len(s.syms) + 1)

(***************************************************************************)
(* C11 as amended: on a stack that holds the nesting of the line, an       *)
(* evaluation returns, and the loop reaches its print and its next prompt  *)
(* (or init's release of a released lval ends the process), when no name   *)
(* that the line leads to is bound to a value that leads back to that name *)
(* and the line is a def of literals or leads to no def.  The evaluation   *)
(* of (eval x) where x is bound to {eval x}, or to {eval y} with y bound   *)
(* to {eval x}, never returns: it recurses until the stack is exhausted    *)
(* and the process ends.  Between two evaluations the stack is empty.      *)
(***************************************************************************)
C11_TerminationWellFounded ==
  /\ []((Evaluated /\ WellFounded(pre, input)) => (pc = "free" \/ Aborted))
  /\ (pc = "free") ~> (pc = "readline")
  /\ []((Evaluated /\ SelfEval(pre, input)) => Overflowed)
  /\ [](pc # "crashed" => st.depth = 0)

C11_Witness ==
  /\ pc = "free"
  /\ input = App("eval", <<Sy("x")>>)
  /\ {"x", "y"} \subseteq Names(pre)
  /\ Bound(pre, "x") = VQ(<<VSym("eval"), VSym("y")>>)
  /\ Bound(pre, "y") = VQ(<<>>)
  /\ WellFounded(pre, input)
  /\ out = VS(<<>>)

====
